---- MODULE Spec2Model ----
(***************************************************************************)
(* Wind-farm collection network, export optimiser and CCP siting search    *)
(* (network.py, optimizer.py, config.py) as state machines.                *)
(*                                                                         *)
(* Numbers.  Coordinates, capacities, powers and costs are floats in the   *)
(* source.  Here they are integers: coordinates and costs are whole        *)
(* numbers of their unit, math.sqrt is rounded to 1/DistScale of a length  *)
(* unit, and transformer / total powers are counted in 1/PowerScale of a   *)
(* power unit so that int() and math.ceil() have something to cut off.     *)
(***************************************************************************)
EXTENDS Integers, Sequences, FiniteSets, TLC

VARIABLES
    \* ---- collection network (network.py) ----
    turbines,       \* list[Turbine]: records [kind, node_id, x, y]
    cable_options,  \* list[CableType] handed to design_collection_network
    neighbors,      \* Turbine.neighbors per turbine id: sequence of node ids
    ccp,            \* the CCP object of the current call (None before any)
    net_pc,         \* position inside design_collection_network
    in_mst,         \* build_rooted_mst: set of node ids in the tree
    mst_edges,      \* build_rooted_mst: list of Edge
    tree,           \* build_rooted_mst: parent id -> list of (child, edge)
    last_result,    \* what the latest completed call returned
    prev_result,    \* what the call before it returned
    ncalls,         \* number of calls started
    \* ---- export cost (optimizer.py, compute_export_cost) ----
    ex_args,        \* the arguments of the call
    ex_pc,          \* position inside compute_export_cost
    dp,             \* dp[p], p in 0..max_power (empty before it is filled)
    cur_power,      \* path reconstruction: current power level
    remaining_cost, \* path reconstruction: cost still to be explained
    transformer_usage,  \* path reconstruction: name -> count
    ex_result,      \* what compute_export_cost returned
    \* ---- siting search (optimizer.py, optimize_ccp_on_ray) ----
    se_turbines,    \* the layout handed to optimize_ccp_on_ray
    tol,            \* the tolerance, in half steps of the t grid
    lo,             \* search interval, in steps of the t grid
    hi,
    se_pc,          \* position inside optimize_ccp_on_ray
    evals,          \* the total_system_cost calls of the latest step
    se_result       \* what optimize_ccp_on_ray returned or raised

netvars == <<turbines, cable_options, neighbors, ccp, net_pc, in_mst,
             mst_edges, tree, last_result, prev_result, ncalls>>

exvars == <<ex_args, ex_pc, dp, cur_power, remaining_cost, transformer_usage, ex_result>>

sevars == <<se_turbines, tol, lo, hi, se_pc, evals, se_result>>

vars == <<netvars, exvars, sevars>>

(***************************************************************************)
(* Bounds of the model                                                     *)
(***************************************************************************)
MaxTurbines == 3
MaxCalls == 2

MaxPower == 7
MaxRated == 5

MaxSearchTurbines == 2

\* the floats t in [0, 1] of the ternary search are the multiples of 1/TGrid
TGrid == 9
\* is_ccp_feasible: min_dist
MinDist == 250
\* int() and math.ceil() cut powers to multiples of PowerScale
PowerScale == 2
\* fixed-point resolution of math.sqrt in get_dist
DistScale == 100
\* default turbine_power of design_collection_network
TurbinePower == 12

None == [kind |-> "None"]

ZeroDivisionError == [kind |-> "ZeroDivisionError"]

TypeError == [kind |-> "TypeError"]

\* an optional list / dict argument or result that is present
List(items) == [kind |-> "list", items |-> items]

Dict(items) == [kind |-> "dict", items |-> items]

INF == 1000000000

Range(s) == {s[i] : i \in DOMAIN s}

Put(f, k, v) == [x \in (DOMAIN f) \cup {k} |-> IF x = k THEN v ELSE f[x]]

EmptyMap == [x \in {} |-> 0]

RECURSIVE SumSeq(_)
SumSeq(s) == IF s = <<>> THEN 0 ELSE Head(s) + SumSeq(Tail(s))

(***************************************************************************)
(* config.py                                                               *)
(***************************************************************************)
Node(kind, node_id, x, y) == [kind |-> kind, node_id |-> node_id, x |-> x, y |-> y]

CableType(name, capacity, cost_per_meter) ==
    [name |-> name, capacity |-> capacity, cost_per_meter |-> cost_per_meter]

\* Where turbines stand, where a CCP is tried, and the onshore point (0, 0)
TurbineSites == {<<0, 0>>, <<2, 0>>, <<2, 2>>, <<0, 1>>}

CcpSites == {<<1, 0>>, <<1, 2>>}

Points == TurbineSites \cup CcpSites \cup {<<0, 0>>}

SquaredDist(x1, y1, x2, y2) == (x1 - x2) * (x1 - x2) + (y1 - y2) * (y1 - y2)

\* math.sqrt on the squared distances that occur, rounded down to 1/DistScale
SqrtTable ==
    [d \in {SquaredDist(p[1], p[2], q[1], q[2]) : p \in Points, q \in Points} |->
        CHOOSE r \in 0..(d * DistScale) :
            /\ r * r <= d * DistScale * DistScale
            /\ (r + 1) * (r + 1) > d * DistScale * DistScale]

get_dist(node1, node2) == SqrtTable[SquaredDist(node1.x, node1.y, node2.x, node2.y)]

TransformerType(name, rated_power, cost) ==
    [name |-> name, rated_power |-> rated_power, cost |-> cost]

Edge(node1, node2) ==
    [node1 |-> node1, node2 |-> node2, flow |-> 0, cable_type |-> None, num_cables |-> 0]

get_cost(edge) ==
    IF edge.cable_type = None THEN 0
    ELSE edge.num_cables * edge.cable_type.cost_per_meter * get_dist(edge.node1, edge.node2)

(***************************************************************************)
(* network.py                                                              *)
(***************************************************************************)
CcpInitParams == 3

\* CCP.__init__(self, node_id, x, y): any other number of arguments is a TypeError
CCP(args) ==
    IF Len(args) = CcpInitParams
    THEN [kind |-> "CCP", node_id |-> args[1], x |-> args[2], y |-> args[3],
          connected_turbines |-> <<>>]
    ELSE TypeError

Turbine(node_id, x, y) == Node("Turbine", node_id, x, y)

AsNode(n) == Node(n.kind, n.node_id, n.x, n.y)

\* One pass of the while loop of build_rooted_mst: the first (node, other_node)
\* pair in scan order whose distance is strictly below every earlier one.
ScanPairsAnyParent(nodes, inset) ==
    {<<i, j>> \in (1..Len(nodes)) \X (1..Len(nodes)) : nodes[j].node_id \notin inset}

ScanPairs(nodes, inset) ==
    {<<i, j>> \in (1..Len(nodes)) \X (1..Len(nodes)) :
        nodes[i].node_id \in inset /\ nodes[j].node_id \notin inset}

ScanBefore(p, q) == p[1] < q[1] \/ (p[1] = q[1] /\ p[2] < q[2])

min_edge(nodes, inset) ==
    LET pairs == ScanPairs(nodes, inset)
        d(p) == get_dist(nodes[p[1]], nodes[p[2]])
    IN IF pairs = {} THEN None
       ELSE LET best == CHOOSE p \in pairs :
                    \A q \in pairs \ {p} : d(p) < d(q) \/ (d(p) = d(q) /\ ScanBefore(p, q))
            IN Edge(nodes[best[1]], nodes[best[2]])

all_nodes_SkipWired ==
    <<AsNode(ccp)>> \o SelectSeq(turbines, LAMBDA t : neighbors[t.node_id] = <<>>)

\* all_nodes = [ccp] + turbines
all_nodes == <<AsNode(ccp)>> \o turbines

\* calculate_flows: dfs(node) threads the shared flows dict through the recursion
RECURSIVE dfs(_, _, _, _)
RECURSIVE dfs_children(_, _, _, _, _)
RECURSIVE dfs_children_NoAccumulate(_, _, _, _, _)
dfs_children_NoAccumulate(tr, children, turbine_power, flows, total_power) ==
    IF children = <<>> THEN [total_power |-> total_power, flows |-> flows]
    ELSE LET child == Head(children).child
             edge == Head(children).edge
             r == dfs(tr, child, turbine_power, flows)
             edge_key == <<edge.node1.node_id, edge.node2.node_id>>
         IN dfs_children_NoAccumulate(tr, Tail(children), turbine_power,
                                      Put(r.flows, edge_key, r.total_power), total_power)

dfs(tr, node, turbine_power, flows) ==
    LET own == IF node.kind = "Turbine" THEN turbine_power ELSE 0
    IN IF node.node_id \in DOMAIN tr
       THEN dfs_children(tr, tr[node.node_id], turbine_power, flows, own)
       ELSE [total_power |-> own, flows |-> flows]

dfs_children(tr, children, turbine_power, flows, total_power) ==
    IF children = <<>> THEN [total_power |-> total_power, flows |-> flows]
    ELSE LET child == Head(children).child
             edge == Head(children).edge
             r == dfs(tr, child, turbine_power, flows)
             edge_key == <<edge.node1.node_id, edge.node2.node_id>>
         IN dfs_children(tr, Tail(children), turbine_power,
                         Put(r.flows, edge_key, r.total_power),
                         total_power + r.total_power)

calculate_flows(tr, c, turbine_power) == dfs(tr, c, turbine_power, EmptyMap).flows

\* math.ceil(a / b) for b # 0
CeilDiv(a, b) ==
    IF b > 0 THEN -((-a) \div b) ELSE -(a \div (-b))

DummyCable == CableType("DummyCable", 0, INF)

RECURSIVE select_loop_LastWins(_, _, _, _)
select_loop_LastWins(required_flow, options, best_option, best_cost_per_meter) ==
    IF options = <<>> THEN best_option
    ELSE LET cable_type == Head(options) IN
         IF cable_type.capacity = 0 THEN ZeroDivisionError
         ELSE LET num_needed == CeilDiv(required_flow, cable_type.capacity)
                  cost_per_meter == num_needed * cable_type.cost_per_meter
              IN IF cost_per_meter <= best_cost_per_meter
                 THEN select_loop_LastWins(required_flow, Tail(options),
                                  [cable |-> cable_type, num |-> num_needed], cost_per_meter)
                 ELSE select_loop_LastWins(required_flow, Tail(options), best_option,
                                  best_cost_per_meter)

\* select_cable_bundle: the loop over cable_options; a zero capacity raises
RECURSIVE select_loop(_, _, _, _)
select_loop(required_flow, options, best_option, best_cost_per_meter) ==
    IF options = <<>> THEN best_option
    ELSE LET cable_type == Head(options) IN
         IF cable_type.capacity = 0 THEN ZeroDivisionError
         ELSE LET num_needed == CeilDiv(required_flow, cable_type.capacity)
                  cost_per_meter == num_needed * cable_type.cost_per_meter
              IN IF cost_per_meter < best_cost_per_meter
                 THEN select_loop(required_flow, Tail(options),
                                  [cable |-> cable_type, num |-> num_needed], cost_per_meter)
                 ELSE select_loop(required_flow, Tail(options), best_option,
                                  best_cost_per_meter)

select_cable_bundle(required_flow, options) ==
    select_loop(required_flow, options, [cable |-> DummyCable, num |-> 0], INF)

\* Step 3 of design_collection_network: the first edge whose bundle cannot be
\* sized aborts the call
RECURSIVE assign_cables(_, _, _, _)
assign_cables(edges, flows, options, done) ==
    IF edges = <<>> THEN [kind |-> "ok", edges |-> done]
    ELSE LET edge == Head(edges)
             edge_key == <<edge.node1.node_id, edge.node2.node_id>>
         IN IF edge_key \in DOMAIN flows
            THEN LET b == select_cable_bundle(flows[edge_key], options) IN
                 IF b = ZeroDivisionError THEN ZeroDivisionError
                 ELSE assign_cables(Tail(edges), flows, options,
                                    Append(done, [edge EXCEPT !.flow = flows[edge_key],
                                                              !.cable_type = b.cable,
                                                              !.num_cables = b.num]))
            ELSE assign_cables(Tail(edges), flows, options, Append(done, edge))

\* update_node_connections, third loop: one edge at a time
IdsOf(nbrs) == Range(nbrs)

RECURSIVE update_node_connections(_, _, _)
update_node_connections(edges, nbrs, connected) ==
    IF edges = <<>> THEN [neighbors |-> nbrs, connected_turbines |-> connected]
    ELSE LET edge == Head(edges)
             n1 == edge.node1
             n2 == edge.node2
             nb1 == IF n1.kind = "Turbine" /\ n1.node_id \notin IdsOf(nbrs[n1.node_id])
                    THEN [nbrs EXCEPT ![n1.node_id] = Append(@, n2.node_id)]
                    ELSE nbrs
             nb2 == IF n2.kind = "Turbine" /\ n2.node_id \notin IdsOf(nb1[n2.node_id])
                    THEN [nb1 EXCEPT ![n2.node_id] = Append(@, n1.node_id)]
                    ELSE nb1
             conn == IF n1.kind = "CCP" /\ n2.kind = "Turbine"
                     THEN IF n2.node_id \notin Range(connected)
                          THEN Append(connected, n2.node_id) ELSE connected
                     ELSE IF n2.kind = "CCP" /\ n1.kind = "Turbine"
                          THEN IF n1.node_id \notin Range(connected)
                               THEN Append(connected, n1.node_id) ELSE connected
                          ELSE connected
         IN update_node_connections(Tail(edges), nb2, conn)

total_cost_of(edges) == SumSeq([i \in DOMAIN edges |-> get_cost(edges[i])])

(***************************************************************************)
(* Inputs                                                                  *)
(***************************************************************************)
\* generate_turbine_layout numbers the turbines 1, 2, ... in list order
Layouts ==
    UNION {[1..n -> TurbineSites] : n \in 0..MaxTurbines}

LayoutTurbines(l) == [i \in DOMAIN l |-> Turbine(i, l[i][1], l[i][2])]

\* catalog entries: capacity in power units (zero and negative entries are
\* accepted by the code as they come), cost per length unit
Catalogs ==
    {<<CableType("mv1", 20, 3), CableType("mv2", 30, 4)>>,
     <<CableType("mv2", 30, 4), CableType("mv1", 10, 2)>>,
     <<CableType("mv1", 20, 3), CableType("z", 0, 2)>>,
     <<CableType("n", 0 - 5, 2), CableType("mv1", 20, 3)>>}

IdleNet ==
    /\ turbines = <<>>
    /\ cable_options = <<>>
    /\ neighbors = <<>>
    /\ ccp = None
    /\ net_pc = "off"
    /\ in_mst = {}
    /\ mst_edges = <<>>
    /\ tree = EmptyMap
    /\ last_result = None
    /\ prev_result = None
    /\ ncalls = 0

IdleExport ==
    /\ ex_args = None
    /\ ex_pc = "off"
    /\ dp = EmptyMap
    /\ cur_power = 0
    /\ remaining_cost = 0
    /\ transformer_usage = EmptyMap
    /\ ex_result = None

IdleSearch ==
    /\ se_turbines = <<>>
    /\ tol = 0
    /\ lo = 0
    /\ hi = 0
    /\ se_pc = "off"
    /\ evals = <<>>
    /\ se_result = None

InitNet ==
    /\ IdleExport
    /\ IdleSearch
    /\ turbines \in {LayoutTurbines(l) : l \in Layouts}
    /\ cable_options \in Catalogs
    /\ neighbors = [i \in 1..Len(turbines) |-> <<>>]
    /\ ccp = None
    /\ net_pc = "idle"
    /\ in_mst = {}
    /\ mst_edges = <<>>
    /\ tree = EmptyMap
    /\ last_result = None
    /\ prev_result = None
    /\ ncalls = 0

(***************************************************************************)
(* design_collection_network, step by step                                 *)
(***************************************************************************)
\* The caller hands in a CCP: a new object at (x, y), or the object of the
\* previous call; then lines 179-180 up to the while loop of build_rooted_mst.
CallDesign ==
    /\ net_pc = "idle"
    /\ ncalls < MaxCalls
    /\ \E fresh \in BOOLEAN, at \in CcpSites :
          /\ fresh \/ ccp # None
          /\ ccp' = IF fresh THEN CCP(<<0, at[1], at[2]>>) ELSE ccp
    /\ ncalls' = ncalls + 1
    /\ mst_edges' = <<>>
    /\ IF Len(turbines) + 1 <= 1
       THEN /\ in_mst' = {}
            /\ tree' = EmptyMap
            /\ net_pc' = "built"
       ELSE /\ in_mst' = {ccp'.node_id}
            /\ tree' = Put(EmptyMap, ccp'.node_id, <<>>)
            /\ net_pc' = "mst"
    /\ UNCHANGED <<turbines, cable_options, neighbors, last_result, prev_result>>
    /\ UNCHANGED <<exvars, sevars>>

\* One iteration of `while len(in_mst) < len(nodes)`
MstStep ==
    /\ net_pc = "mst"
    /\ Cardinality(in_mst) < Len(all_nodes)
    /\ LET e == min_edge(all_nodes, in_mst) IN
       IF e # None
       THEN /\ mst_edges' = Append(mst_edges, e)
            /\ in_mst' = in_mst \cup {e.node2.node_id}
            /\ tree' = LET t0 == IF e.node1.node_id \notin DOMAIN tree
                                 THEN Put(tree, e.node1.node_id, <<>>) ELSE tree
                       IN [t0 EXCEPT ![e.node1.node_id] =
                              Append(@, [child |-> e.node2, edge |-> e])]
       ELSE UNCHANGED <<mst_edges, in_mst, tree>>
    /\ UNCHANGED <<turbines, cable_options, neighbors, ccp, net_pc, last_result,
                   prev_result, ncalls>>
    /\ UNCHANGED <<exvars, sevars>>

\* The loop condition fails: build_rooted_mst returns
MstReturn ==
    /\ net_pc = "mst"
    /\ ~(Cardinality(in_mst) < Len(all_nodes))
    /\ net_pc' = "built"
    /\ UNCHANGED <<turbines, cable_options, neighbors, ccp, in_mst, mst_edges, tree,
                   last_result, prev_result, ncalls>>
    /\ UNCHANGED <<exvars, sevars>>

\* Steps 2-5 and the return
FinishDesign ==
    /\ net_pc = "built"
    /\ LET flows == calculate_flows(tree, AsNode(ccp), TurbinePower)
           a == assign_cables(mst_edges, flows, cable_options, <<>>)
           edges == a.edges
       IN IF a = ZeroDivisionError
          THEN /\ net_pc' = "ZeroDivisionError"
               /\ UNCHANGED <<neighbors, ccp, mst_edges, last_result, prev_result>>
          ELSE LET u == update_node_connections(edges, neighbors, ccp.connected_turbines)
               IN /\ neighbors' = u.neighbors
                  /\ ccp' = [ccp EXCEPT !.connected_turbines = u.connected_turbines]
                  /\ mst_edges' = edges
                  /\ prev_result' = last_result
                  /\ last_result' = [ccp |-> AsNode(ccp), flows |-> flows,
                                     edges |-> edges, total_cost |-> total_cost_of(edges)]
                  /\ net_pc' = "idle"
    /\ UNCHANGED <<turbines, cable_options, in_mst, tree, ncalls>>
    /\ UNCHANGED <<exvars, sevars>>

NextNet == CallDesign \/ MstStep \/ MstReturn \/ FinishDesign

SpecNet == InitNet /\ [][NextNet]_vars

(***************************************************************************)
(* optimizer.py: compute_export_cost                                       *)
(***************************************************************************)
\* int(x) and int(math.ceil(x)) of a power x >= 0 counted in 1/PowerScale
IntOf(x) == x \div PowerScale

CeilOf(x) == (x + PowerScale - 1) \div PowerScale

Min(a, b) == IF a <= b THEN a ELSE b

\* float addition with an infinite operand
AddCost(a, b) == IF a = INF THEN INF ELSE a + b

\* lines 45-47: the transitions out of level p, one transformer at a time
RECURSIVE dp_inner(_, _, _, _)
RECURSIVE dp_inner_NoOvershoot(_, _, _, _)
dp_inner_NoOvershoot(table, p, trs, max_power) ==
    IF trs = <<>> THEN table
    ELSE LET tr == Head(trs)
             next_p == p + IntOf(tr.rated_power)
         IN dp_inner_NoOvershoot(
                IF next_p <= max_power
                THEN [table EXCEPT ![next_p] = Min(@, table[p] + tr.cost)] ELSE table,
                p, Tail(trs), max_power)

dp_inner(table, p, trs, max_power) ==
    IF trs = <<>> THEN table
    ELSE LET tr == Head(trs)
             next_p == Min(max_power, p + IntOf(tr.rated_power))
         IN dp_inner([table EXCEPT ![next_p] = Min(@, table[p] + tr.cost)],
                     p, Tail(trs), max_power)

\* lines 42-47: for p in range(max_power + 1)
RECURSIVE dp_outer(_, _, _, _)
dp_outer(table, p, trs, max_power) ==
    IF p > max_power THEN table
    ELSE IF table[p] = INF THEN dp_outer(table, p + 1, trs, max_power)
    ELSE dp_outer(dp_inner(table, p, trs, max_power), p + 1, trs, max_power)

\* lines 40-47
fill_dp(max_power, trs) ==
    dp_outer([p \in 0..max_power |-> IF p = 0 THEN 0 ELSE INF], 0, trs, max_power)

PrevPower(cur, tr) ==
    LET prev_power == cur - IntOf(tr.rated_power)
    IN IF prev_power < 0 THEN 0 ELSE prev_power

\* lines 60-71: the first transformer whose step explains remaining_cost exactly
RECURSIVE find_exact(_, _, _, _)
RECURSIVE find_exact_AnyReachable(_, _, _, _)
find_exact_AnyReachable(table, trs, cur, remaining) ==
    IF trs = <<>> THEN None
    ELSE LET tr == Head(trs)
             prev_power == PrevPower(cur, tr)
         IN IF prev_power <= cur /\ table[prev_power] # INF
            THEN [best_prev_power |-> prev_power, best_transformer |-> tr]
            ELSE find_exact_AnyReachable(table, Tail(trs), cur, remaining)

find_exact(table, trs, cur, remaining) ==
    IF trs = <<>> THEN None
    ELSE LET tr == Head(trs)
             prev_power == PrevPower(cur, tr)
         IN IF prev_power <= cur /\ AddCost(table[prev_power], tr.cost) = remaining
            THEN [best_prev_power |-> prev_power, best_transformer |-> tr]
            ELSE find_exact(table, Tail(trs), cur, remaining)

\* lines 73-88: the fallback; its tolerance of 1e-9 is below one cost unit
RECURSIVE find_closest(_, _, _, _)
find_closest(table, trs, cur, remaining) ==
    IF trs = <<>> THEN None
    ELSE LET tr == Head(trs)
             prev_power == PrevPower(cur, tr)
         IN IF prev_power <= cur /\ AddCost(table[prev_power], tr.cost) <= remaining
            THEN [best_prev_power |-> prev_power, best_transformer |-> tr]
            ELSE find_closest(table, Tail(trs), cur, remaining)

\* lines 58-88
find_step(table, trs, cur, remaining) ==
    LET exact == find_exact(table, trs, cur, remaining)
    IN IF exact # None THEN exact ELSE find_closest(table, trs, cur, remaining)

\* lines 21-25 and 31-33
bundle_cost(b, dist) == b.num * b.cable.cost_per_meter * dist

Onshore == Node("Node", 0 - 1, 0, 0)

ex_dist == get_dist(ex_args.ccp, Onshore)

mv_cost == bundle_cost(select_cable_bundle(ex_args.total_power, ex_args.mv_cables), ex_dist)

hv_cable_cost ==
    bundle_cost(select_cable_bundle(ex_args.total_power, ex_args.hv_cables.items), ex_dist)

max_power == CeilOf(ex_args.total_power)

\* Inputs: powers, capacities and rated powers in 1/PowerScale of a power
\* unit; cable catalogs with positive capacities
ExportMv ==
    {<<CableType("mv1", 3, 2), CableType("mv2", 5, 3)>>, <<CableType("mv1", 4, 5)>>}

ExportHv == {<<CableType("hv1", 8, 1), CableType("hv2", 14, 2)>>, <<CableType("hv1", 9, 3)>>}

TransformerCosts == {200, 300, 500}

TransformerName(i) == IF i = 1 THEN "tr1" ELSE IF i = 2 THEN "tr2" ELSE "tr3"

TransformerCatalogs ==
    UNION {{[i \in 1..n |-> TransformerType(TransformerName(i), c[i][1], c[i][2])] :
                c \in [1..n -> (1..MaxRated) \X TransformerCosts]}
           : n \in 0..2}

InitExport ==
    /\ IdleNet
    /\ IdleSearch
    /\ \E at \in CcpSites \cup {<<0, 0>>}, tp \in 0..MaxPower, mv \in ExportMv,
          hv \in {List(c) : c \in ExportHv} \cup {None},
          trs \in {List(c) : c \in TransformerCatalogs} \cup {None} :
          ex_args = [ccp |-> AsNode(CCP(<<0, at[1], at[2]>>)), total_power |-> tp,
                     mv_cables |-> mv, hv_cables |-> hv, transformers |-> trs]
    /\ ex_pc = "start"
    /\ dp = EmptyMap
    /\ cur_power = 0
    /\ remaining_cost = 0
    /\ transformer_usage = EmptyMap
    /\ ex_result = None

\* lines 21-56: up to the first test of the reconstruction loop
ExportCall ==
    /\ ex_pc = "start"
    /\ IF ex_args.hv_cables = None \/ ex_args.transformers = None
       THEN /\ ex_result' = [cost |-> mv_cost, usage |-> None]
            /\ ex_pc' = "returned"
            /\ UNCHANGED <<dp, cur_power, remaining_cost>>
       ELSE LET table == fill_dp(max_power, ex_args.transformers.items)
                transformer_cost == table[max_power]
            IN /\ dp' = table
               /\ IF transformer_cost = INF
                  THEN /\ ex_result' = [cost |-> mv_cost, usage |-> None]
                       /\ ex_pc' = "returned"
                       /\ UNCHANGED <<cur_power, remaining_cost>>
                  ELSE /\ cur_power' = max_power
                       /\ remaining_cost' = transformer_cost
                       /\ ex_pc' = "reconstruct"
                       /\ UNCHANGED ex_result
    /\ UNCHANGED <<ex_args, transformer_usage>>
    /\ UNCHANGED <<netvars, sevars>>

\* lines 57-101: one pass of `while cur_power > 0`
ReconstructStep ==
    /\ ex_pc = "reconstruct"
    /\ cur_power > 0
    /\ LET step == find_step(dp, ex_args.transformers.items, cur_power, remaining_cost) IN
       IF step = None
       THEN /\ ex_pc' = "RuntimeError"
            /\ UNCHANGED <<cur_power, remaining_cost, transformer_usage>>
       ELSE LET tr_name == step.best_transformer.name IN
            /\ transformer_usage' =
                  Put(transformer_usage, tr_name,
                      (IF tr_name \in DOMAIN transformer_usage
                       THEN transformer_usage[tr_name] ELSE 0) + 1)
            /\ remaining_cost' = remaining_cost - step.best_transformer.cost
            /\ cur_power' = step.best_prev_power
            /\ UNCHANGED ex_pc
    /\ UNCHANGED <<ex_args, dp, ex_result>>
    /\ UNCHANGED <<netvars, sevars>>

\* lines 103-108
ExportReturn ==
    /\ ex_pc = "reconstruct"
    /\ ~(cur_power > 0)
    /\ LET hv_total_cost == hv_cable_cost + dp[max_power] IN
       ex_result' = IF mv_cost <= hv_total_cost
                    THEN [cost |-> mv_cost, usage |-> None]
                    ELSE [cost |-> hv_total_cost, usage |-> Dict(transformer_usage)]
    /\ ex_pc' = "returned"
    /\ UNCHANGED <<ex_args, dp, cur_power, remaining_cost, transformer_usage>>
    /\ UNCHANGED <<netvars, sevars>>

NextExport == ExportCall \/ ReconstructStep \/ ExportReturn

SpecExport == InitExport /\ [][NextExport]_vars

(***************************************************************************)
(* optimizer.py: total_system_cost and optimize_ccp_on_ray                 *)
(***************************************************************************)
\* statistics.mean(t.x ...) and statistics.mean(t.y ...) times len(turbines)
SumX == SumSeq([i \in DOMAIN se_turbines |-> se_turbines[i].x])

SumY == SumSeq([i \in DOMAIN se_turbines |-> se_turbines[i].y])

\* the point (t * cx, t * cy) for t = k / TGrid, as fractions <<numerator, denominator>>
CandidateX(k) == <<k * SumX, TGrid * Len(se_turbines)>>

CandidateY(k) == <<k * SumY, TGrid * Len(se_turbines)>>

\* math.hypot(ccp_x - t.x, ccp_y - t.y) < min_dist, both sides squared and
\* cleared of the denominator
TooClose(cx, cy, t) ==
    SquaredDist(cx[1], cy[1], cx[2] * t.x, cy[2] * t.y)
        < (MinDist * cx[2]) * (MinDist * cx[2])

is_ccp_feasible(cx, cy, ts) == \A i \in DOMAIN ts : ~TooClose(cx, cy, ts[i])

\* total_system_cost: infinite cost at an infeasible point; at a feasible one
\* line 139 builds the CCP with four arguments, and whatever the constructor
\* makes of that is the outcome (lines 141-157 run only on a CCP).
total_system_cost(cx, cy, ts) ==
    IF ~is_ccp_feasible(cx, cy, ts)
    THEN [kind |-> "cost", cost |-> INF, usage |-> None]
    ELSE CCP(<<0, cx, cy, None>>)

EvalAt(k) ==
    [t |-> k,
     feasible |-> is_ccp_feasible(CandidateX(k), CandidateY(k), se_turbines),
     outcome |-> total_system_cost(CandidateX(k), CandidateY(k), se_turbines)]

\* (hi - lo) / 3 rounded to the nearest representable t
Third(w) == (2 * w + 3) \div 6

SearchSites == {<<0, 0>>, <<300, 0>>, <<600, 0>>, <<0, 300>>, <<300, 300>>, <<600, 600>>}

SearchLayouts == UNION {[1..n -> SearchSites] : n \in 1..MaxSearchTurbines}

Tolerances == {1, 4, 8}

InitSearch ==
    /\ IdleNet
    /\ IdleExport
    /\ se_turbines \in {LayoutTurbines(l) : l \in SearchLayouts}
    /\ tol \in Tolerances
    /\ lo = 0
    /\ hi = TGrid
    /\ se_pc = "loop"
    /\ evals = <<>>
    /\ se_result = None

\* lines 186-193: one pass of `while hi - lo > tol`
SearchStep ==
    /\ se_pc = "loop"
    /\ 2 * (hi - lo) > tol
    /\ LET m1 == lo + Third(hi - lo)
           m2 == hi - Third(hi - lo)
           e1 == EvalAt(m1)
           e2 == EvalAt(m2)
       IN IF e1.outcome.kind # "cost"
          THEN /\ evals' = <<e1>>
               /\ se_pc' = "raised"
               /\ se_result' = [kind |-> e1.outcome.kind, at |-> "cost_at"]
               /\ UNCHANGED <<lo, hi>>
          ELSE IF e2.outcome.kind # "cost"
          THEN /\ evals' = <<e1, e2>>
               /\ se_pc' = "raised"
               /\ se_result' = [kind |-> e2.outcome.kind, at |-> "cost_at"]
               /\ UNCHANGED <<lo, hi>>
          ELSE /\ evals' = <<e1, e2>>
               /\ IF e1.outcome.cost < e2.outcome.cost
                  THEN hi' = m2 /\ lo' = lo
                  ELSE lo' = m1 /\ hi' = hi
               /\ UNCHANGED <<se_pc, se_result>>
    /\ UNCHANGED <<se_turbines, tol>>
    /\ UNCHANGED <<netvars, exvars>>

\* lines 195-207: t_opt, the last total_system_cost call and the CCP built
\* from it
SearchFinish ==
    /\ se_pc = "loop"
    /\ ~(2 * (hi - lo) > tol)
    /\ LET t_opt == (lo + hi) \div 2
           e == EvalAt(t_opt)
       IN /\ evals' = <<e>>
          /\ IF e.outcome.kind # "cost"
             THEN /\ se_pc' = "raised"
                  /\ se_result' = [kind |-> e.outcome.kind, at |-> "total_system_cost"]
             ELSE LET c == CCP(<<0, CandidateX(t_opt), CandidateY(t_opt), e.outcome.usage>>)
                  IN IF c = TypeError
                     THEN /\ se_pc' = "raised"
                          /\ se_result' = [kind |-> "TypeError", at |-> "CCP"]
                     ELSE /\ se_pc' = "returned"
                          /\ se_result' = c
    /\ UNCHANGED <<se_turbines, tol, lo, hi>>
    /\ UNCHANGED <<netvars, exvars>>

NextSearch == SearchStep \/ SearchFinish

SpecSearch == InitSearch /\ [][NextSearch]_vars

(***************************************************************************)
(* Properties of the siting search                                         *)
(***************************************************************************)
\* C7: optimize_ccp_on_ray runs to its return, what it returns is a CCP with
\* id 0 at (t_opt * cx, t_opt * cy), and every total_system_cost call at a
\* point that keeps the clearance from all turbines yields a cost, not a
\* failure.
C7_SearchReturnsCcp ==
    /\ se_pc # "raised"
    /\ \A i \in DOMAIN evals : evals[i].feasible => evals[i].outcome.kind = "cost"
    /\ se_pc = "returned" =>
          /\ se_result.kind = "CCP"
          /\ se_result.node_id = 0
          /\ se_result.x = CandidateX((lo + hi) \div 2)
          /\ se_result.y = CandidateY((lo + hi) \div 2)

\* C8: the ternary loop is never abandoned, every pass narrows [lo, hi], and
\* it is left only with hi - lo within the tolerance, t_opt in between.
C8_TernaryLoopConverges ==
    /\ ~(se_pc = "raised" /\ se_result.at = "cost_at")
    /\ (se_pc = "loop" /\ 2 * (hi - lo) > tol) => Third(hi - lo) > 0
    /\ (se_pc = "returned" \/ (se_pc = "raised" /\ se_result.at # "cost_at"))
          => 2 * (hi - lo) <= tol

(***************************************************************************)
(* Properties of the export cost                                           *)
(***************************************************************************)
Called == ex_pc \in {"reconstruct", "returned", "RuntimeError"}

HvOffered == ex_args.hv_cables # None /\ ex_args.transformers # None

\* every way of buying at most `most` transformers of each catalog type
Purchases(trs, most) == [1..Len(trs) -> 0..most]

PurchaseCost(trs, n) == SumSeq([i \in 1..Len(trs) |-> n[i] * trs[i].cost])

PurchaseRated(trs, n) == SumSeq([i \in 1..Len(trs) |-> n[i] * trs[i].rated_power])

PurchaseWholeRated(trs, n) == SumSeq([i \in 1..Len(trs) |-> n[i] * IntOf(trs[i].rated_power)])

Cheapest(costs) == IF costs = {} THEN INF ELSE CHOOSE c \in costs : \A d \in costs : c <= d

C4_ReconstructionReachesZero ==
    /\ ex_pc # "RuntimeError"
    /\ (ex_pc = "reconstruct" /\ cur_power > 0) =>
          LET step == find_step(dp, ex_args.transformers.items, cur_power, remaining_cost)
          IN step # None /\ step.best_prev_power < cur_power

UsagePower(trs, usage) ==
    SumSeq([i \in 1..Len(trs) |->
               IF trs[i].name \in DOMAIN usage THEN usage[trs[i].name] * trs[i].rated_power
               ELSE 0])

UsageCost(trs, usage) ==
    SumSeq([i \in 1..Len(trs) |->
               IF trs[i].name \in DOMAIN usage THEN usage[trs[i].name] * trs[i].cost ELSE 0])

\* C5: a returned transformer usage names only catalog types, its rated
\* powers sum to at least the required power and its costs sum to dp[P].
C5_UsageMeetsPowerAtDpCost ==
    (ex_pc = "returned" /\ ex_result.usage # None) =>
        LET trs == ex_args.transformers.items
            usage == ex_result.usage.items
        IN /\ DOMAIN usage \subseteq {trs[i].name : i \in 1..Len(trs)}
           /\ UsagePower(trs, usage) >= ex_args.total_power
           /\ UsageCost(trs, usage) = dp[max_power]

C5_Witness ==
    /\ ex_pc = "returned"
    /\ ex_result.usage # None
    /\ Cardinality(DOMAIN ex_result.usage.items) = 2
    /\ max_power * PowerScale # ex_args.total_power

\* C6: a call returns; the MV cost with no usage when a catalog is absent or
\* dp[P] is infinite, otherwise the smaller of the MV cost and HV cable cost
\* plus dp[P], the MV cost on a tie, with a usage exactly when HV is cheaper.
C6_ReturnsCheaperOption ==
    Called =>
        IF ~HvOffered \/ dp[max_power] = INF
        THEN ex_pc = "returned" /\ ex_result = [cost |-> mv_cost, usage |-> None]
        ELSE /\ ex_pc \in {"reconstruct", "returned"}
             /\ ex_pc = "returned" =>
                   /\ ex_result.cost = Min(mv_cost, hv_cable_cost + dp[max_power])
                   /\ (ex_result.usage # None) <=> (hv_cable_cost + dp[max_power] < mv_cost)

(***************************************************************************)
(* Properties of the collection network                                    *)
(***************************************************************************)
TurbineIds == {turbines[i].node_id : i \in DOMAIN turbines}

EdgeKey(e) == <<e.node1.node_id, e.node2.node_id>>

\* node ids reachable from the ids in `frontier` along node1 -> node2
RECURSIVE Below(_, _, _)
Below(edges, frontier, seen) ==
    IF frontier \subseteq seen THEN seen
    ELSE Below(edges,
               {edges[i].node2.node_id : i \in {k \in DOMAIN edges :
                                                  edges[k].node1.node_id \in frontier}},
               seen \cup frontier)

SubtreeOf(edges, id) == Below(edges, {id}, {})

RootedTree(edges, root_id) ==
    /\ Len(edges) = Len(turbines)
    /\ \A t \in TurbineIds :
          Cardinality({i \in DOMAIN edges : edges[i].node2.node_id = t}) = 1
    /\ \A i \in DOMAIN edges :
          /\ edges[i].node2.kind = "Turbine"
          /\ edges[i].node1.node_id \in
                {root_id} \cup {edges[j].node2.node_id : j \in 1..(i - 1)}
    /\ SubtreeOf(edges, root_id) = {root_id} \cup TurbineIds

\* C1: build_rooted_mst always finds an edge while nodes are missing (so the
\* loop ends after N passes), every edge it adds hangs a new turbine below a
\* node already in the tree, and what it returns, and what
\* design_collection_network returns, is N edges forming a tree rooted at the
\* CCP in which every turbine is the child endpoint of exactly one edge.
C1_RootedSpanningTree ==
    /\ net_pc = "mst" =>
          /\ Cardinality(in_mst) = Len(mst_edges) + 1
          /\ in_mst = {ccp.node_id} \cup {mst_edges[i].node2.node_id : i \in DOMAIN mst_edges}
          /\ \A i \in DOMAIN mst_edges :
                mst_edges[i].node1.node_id \in
                    {ccp.node_id} \cup {mst_edges[j].node2.node_id : j \in 1..(i - 1)}
          /\ Cardinality(in_mst) < Len(all_nodes) => min_edge(all_nodes, in_mst) # None
    /\ net_pc = "built" => RootedTree(mst_edges, ccp.node_id)
    /\ last_result # None => RootedTree(last_result.edges, last_result.ccp.node_id)

C1_Witness ==
    /\ net_pc = "built"
    /\ Len(mst_edges) = 3
    /\ \E i \in DOMAIN mst_edges : mst_edges[i].node1.kind = "Turbine"
    /\ \E i \in DOMAIN mst_edges : mst_edges[i].node1.kind = "CCP"

\* C2: in a returned network every edge carries turbine_power times the
\* number of turbines at or below its child endpoint, the flow map has one
\* entry per tree edge and no other, and the edges leaving the CCP together
\* carry N times turbine_power.
C2_FlowIsSubtreePower ==
    last_result # None =>
        LET edges == last_result.edges
            flows == last_result.flows
        IN /\ DOMAIN flows = {EdgeKey(edges[i]) : i \in DOMAIN edges}
           /\ Cardinality(DOMAIN flows) = Len(edges)
           /\ \A i \in DOMAIN edges :
                 /\ edges[i].flow = flows[EdgeKey(edges[i])]
                 /\ edges[i].flow =
                      TurbinePower * Cardinality(SubtreeOf(edges, edges[i].node2.node_id)
                                                 \cap TurbineIds)
           /\ SumSeq([i \in DOMAIN edges |->
                        IF edges[i].node1.kind = "CCP" THEN edges[i].flow ELSE 0])
                = Len(turbines) * TurbinePower

C2_Witness ==
    /\ last_result # None
    /\ Len(last_result.edges) = 3
    /\ \E i \in DOMAIN last_result.edges :
          /\ last_result.edges[i].flow = 2 * TurbinePower
          /\ last_result.edges[i].node1.kind = "Turbine"

\* C9: two calls in a row on the same turbines with an equal CCP and the same
\* catalog return the same edges in the same order with the same flows, cable
\* types and bundle counts, and the same total cost, whatever the first call
\* wrote into the relationship lists.
C9_SecondCallSameResult ==
    (prev_result # None /\ last_result # None /\ prev_result.ccp = last_result.ccp)
        => /\ prev_result.edges = last_result.edges
           /\ prev_result.flows = last_result.flows
           /\ prev_result.total_cost = last_result.total_cost

C9_Witness ==
    /\ prev_result # None
    /\ last_result # None
    /\ prev_result.ccp = last_result.ccp
    /\ Len(last_result.edges) = 3
    /\ \E t \in TurbineIds : Len(neighbors[t]) > 1

BadCatalog == \E i \in DOMAIN cable_options : cable_options[i].capacity <= 0

\* C10: with a catalog entry of zero or negative capacity the call is turned
\* down before any bundle is sized: it neither ends in a division error nor
\* returns an edge with a negative cable count or a negative cost.
C10_BadCapacityRejected ==
    BadCatalog =>
        /\ net_pc # "ZeroDivisionError"
        /\ last_result # None =>
              /\ \A i \in DOMAIN last_result.edges :
                    /\ last_result.edges[i].num_cables >= 0
                    /\ get_cost(last_result.edges[i]) >= 0
              /\ last_result.total_cost >= 0

NoDuplicates(s) == \A i, j \in DOMAIN s : i # j => s[i] # s[j]

\* the ids at the other end of the edges that touch node id
AdjacentIn(edges, id) ==
    {edges[i].node2.node_id : i \in {k \in DOMAIN edges : edges[k].node1.node_id = id}}
    \cup {edges[i].node1.node_id : i \in {k \in DOMAIN edges : edges[k].node2.node_id = id}}

\* C11: after any number of calls on the same turbines, each turbine's
\* neighbor list holds no id twice and holds exactly the ids adjacent to the
\* turbine in the tree the last call returned, and the CCP's connected list
\* holds each turbine wired straight to the CCP exactly once.
C11_BookkeepingIdempotent ==
    (net_pc = "idle" /\ last_result # None) =>
        /\ \A t \in DOMAIN neighbors :
              /\ NoDuplicates(neighbors[t])
              /\ Range(neighbors[t]) = AdjacentIn(last_result.edges, t)
        /\ NoDuplicates(ccp.connected_turbines)
        /\ Range(ccp.connected_turbines) =
              AdjacentIn(last_result.edges, ccp.node_id)

PositiveCatalog ==
    /\ cable_options # <<>>
    /\ \A k \in DOMAIN cable_options : cable_options[k].capacity > 0

\* the least whole number of cables of capacity cap > 0 that carry flow
LeastCount(flow, cap) ==
    CHOOSE n \in 0..flow : n * cap >= flow /\ \A m \in 0..(n - 1) : m * cap < flow

\* cost per length of carrying flow on catalog entry k
BundleCostPerMeter(flow, k) ==
    LeastCount(flow, cable_options[k].capacity) * cable_options[k].cost_per_meter

\* C12: with a non-empty catalog of positive capacities, every returned edge
\* has a cable type from the catalog and a whole bundle count >= 0 that is
\* the least count whose capacity covers the edge's flow; no catalog entry
\* carries the flow at a strictly smaller cost per length, and every entry
\* earlier in the catalog than the chosen one costs strictly more.
C12_CheapestBundleEarliestWins ==
    (last_result # None /\ PositiveCatalog) =>
        \A i \in DOMAIN last_result.edges :
            LET e == last_result.edges[i] IN
            /\ e.cable_type # None
            /\ e.num_cables \in Nat
            /\ \E k \in DOMAIN cable_options :
                  /\ cable_options[k] = e.cable_type
                  /\ e.num_cables = LeastCount(e.flow, e.cable_type.capacity)
                  /\ e.num_cables * e.cable_type.capacity >= e.flow
                  /\ \A j \in DOMAIN cable_options :
                        BundleCostPerMeter(e.flow, j) >= BundleCostPerMeter(e.flow, k)
                  /\ \A j \in 1..(k - 1) :
                        BundleCostPerMeter(e.flow, j) > BundleCostPerMeter(e.flow, k)

C12_Witness ==
    /\ last_result # None
    /\ PositiveCatalog
    /\ \E i \in DOMAIN last_result.edges :
          LET e == last_result.edges[i] IN
          /\ e.num_cables = 2
          /\ \E k, j \in DOMAIN cable_options :
                /\ cable_options[k] = e.cable_type
                /\ k < j
                /\ BundleCostPerMeter(e.flow, j) = BundleCostPerMeter(e.flow, k)
    /\ \E i \in DOMAIN last_result.edges :
          LET e == last_result.edges[i] IN
          \E j \in DOMAIN cable_options :
              /\ cable_options[j] # e.cable_type
              /\ BundleCostPerMeter(e.flow, j) > e.num_cables * e.cable_type.cost_per_meter

====
